---- MODULE Spec2Model ----
(***************************************************************************)
(* Model of the exercise solutions of TD_CNN:                              *)
(*   solutions/exo1.py  train_one_epoch()   one pass of SGD over the       *)
(*                                          global train_loader            *)
(*   solutions/exo2.py  evaluate(dataloader) mean loss and accuracy of the *)
(*                                          global lenet over dataloader   *)
(* Both functions read the module globals lenet, criterion, optimizer and  *)
(* device; train_one_epoch also reads train_loader.  The harness (a        *)
(* notebook) calls them one after the other, in any order.                 *)
(*                                                                         *)
(* The tensor library is abstracted to exact arithmetic over small         *)
(* integers: the network has one integer parameter, a sample is a pair     *)
(* <<input, label>>, and real numbers are reduced fractions <<n, d>>.      *)
(***************************************************************************)
EXTENDS Integers, Sequences, FiniteSets, TLC

\* Largest number of samples a dataloader holds in total.
MaxSamples == 3

Inputs  == {0}
Classes == {0, 1}
Params  == {0, 1}

NumClasses == Cardinality(Classes)
NumParams  == Cardinality(Params)

Samples == Inputs \X Classes

\* lenet's parameter when the harness starts.
InitParams == 0

None == [kind |-> "None"]

-----------------------------------------------------------------------------
(* Numbers *)

RECURSIVE GCD(_, _)
GCD(a, b) == IF b = 0 THEN a ELSE GCD(b, a % b)

\* The real number n / d (n >= 0, d > 0) as a reduced fraction.
Rat(n, d) == LET g == GCD(n, d) IN <<n \div g, d \div g>>

RatMulInt(r, n) == Rat(r[1] * n, r[2])

RatAdd(r, s) == Rat(r[1] * s[2] + s[1] * r[2], r[2] * s[2])

RatDivInt(r, n) == Rat(r[1], r[2] * n)

RECURSIVE SumSeq(_)
SumSeq(s) == IF s = <<>> THEN 0 ELSE Head(s) + SumSeq(Tail(s))

RECURSIVE Flatten(_)
Flatten(l) == IF l = <<>> THEN <<>> ELSE Head(l) \o Flatten(Tail(l))

-----------------------------------------------------------------------------
(* Dataloaders: finite sequences of non-empty batches of samples *)

BatchesUpTo(n) == UNION {[1..m -> Samples] : m \in 1..n}

RECURSIVE LoadersUpTo(_)
LoadersUpTo(n) ==
    {<<>>} \cup UNION {{<<b>> \o rest : rest \in LoadersUpTo(n - Len(b))} :
                          b \in BatchesUpTo(n)}

Loaders == LoadersUpTo(MaxSamples)

BatchX(b)     == [i \in 1..Len(b) |-> b[i][1]]
BatchLabel(b) == [i \in 1..Len(b) |-> b[i][2]]

-----------------------------------------------------------------------------
(* The external library, as far as the two functions use it *)

\* lenet's output for one input: one score per class.
Logits(w, xi) ==
    [c \in Classes |-> NumClasses - ((c + NumClasses * NumParams - xi - w) % NumClasses)]

\* Variant: the output of the network as it was constructed, whatever it has learnt.
lenet_Initial(w, xs) == [i \in 1..Len(xs) |-> Logits(InitParams, xs[i])]

\* y = lenet(x)
lenet(w, xs) == [i \in 1..Len(xs) |-> Logits(w, xs[i])]

RowMax(row) == CHOOSE m \in {row[c] : c \in Classes} : \A c \in Classes : row[c] <= m

\* torch.argmax(y, dim=1) for one row: the first index of the largest score.
ArgMaxRow(row) ==
    CHOOSE c \in Classes : row[c] = RowMax(row) /\ \A d \in Classes : row[d] = RowMax(row) => c <= d

argmax(ys) == [i \in 1..Len(ys) |-> ArgMaxRow(ys[i])]

\* The loss of one sample: positive, smallest when the label has the largest score.
SampleLoss(row, lab) == 1 + RowMax(row) - row[lab]

\* criterion(y, label): the mean of the per-sample losses over the batch.
criterion(ys, labs) ==
    Rat(SumSeq([i \in 1..Len(labs) |-> SampleLoss(ys[i], labs[i])]), Len(labs))

\* torch.sum(pred == label)
CountEqual(preds, labs) == Cardinality({i \in 1..Len(labs) : preds[i] = labs[i]})

\* The gradient loss.backward() adds to lenet's stored gradient.
BatchGrad(ys, labs) == Len(labs) - CountEqual(argmax(ys), labs)

\* The parameter optimizer.step() writes.
StepParams(w, g) == (w + g) % NumParams

\* The step counter optimizer.step() advances; only its parity is kept.
StepCount(c) == (c + 1) % 2


-----------------------------------------------------------------------------
(* State *)

VARIABLES
    params,          \* lenet's parameter (module global lenet)
    grad,            \* the gradient stored with the parameter
    optState,        \* optimizer's own state: its step counter, kept modulo 2
    grad_enabled,    \* the library's gradient mode, switched off by torch.no_grad()
    pc,              \* "idle" between calls, a statement of the running function, or
                     \* "done" when the call has just ended
    fn,              \* the function called last: "none", "train_one_epoch", "evaluate"
    loader,          \* the iterable the running (or last) call loops over
    k,               \* number of batches taken from loader
    frame,           \* the local variables bound in the running call, by name
    result,          \* how the last call ended: None, a return value or a raised error
    trace,           \* library primitives invoked by the running (or last) call
    entry            \* <<params, grad, optState>> when the call started

globals == <<params, grad, optState, grad_enabled>>
call    == <<fn, loader, entry>>
vars    == <<params, grad, optState, grad_enabled, pc, fn, loader, k, frame, result,
             trace, entry>>

\* No call is running: no local variable exists.
NoFrame == [live |-> FALSE]

\* The frame with local variable `name` bound to v.
Bind(f, name, v) == (name :> v) @@ f

Bound(name) == name \in DOMAIN frame

Init ==
    /\ params = InitParams
    /\ grad = 0
    /\ optState = 0
    /\ grad_enabled = TRUE
    /\ pc = "idle"
    /\ fn = "none"
    /\ loader = <<>>
    /\ k = 0
    /\ frame = NoFrame
    /\ result = None
    /\ trace = <<>>
    /\ entry = <<params, 0, 0>>

\* One more library primitive invoked for batch k; ok = FALSE when it raised.
Log(name, ok) == trace' = Append(trace, [op |-> name, batch |-> k, ok |-> ok])

\* An exception leaves the function: nothing catches it, the frame is dropped, and
\* leaving the `with torch.no_grad()` block restores the gradient mode.
Raise(err) ==
    /\ pc' = "done"
    /\ result' = [kind |-> "raise", error |-> err]
    /\ grad_enabled' = TRUE
    /\ frame' = NoFrame
    /\ UNCHANGED <<k, call>>

-----------------------------------------------------------------------------
(* train_one_epoch *)

CallTrain(train_loader) ==
    /\ pc = "idle"
    /\ pc' = "t_for"
    /\ fn' = "train_one_epoch"
    /\ loader' = train_loader
    /\ k' = 0
    /\ frame' = [live |-> TRUE]
    /\ result' = None
    /\ trace' = <<>>
    /\ entry' = <<params, grad, optState>>
    /\ UNCHANGED globals

\* Variant: the loop stops one batch early.
TrainFor_DropLast ==
    /\ pc = "t_for"
    /\ IF k + 1 < Len(loader)
         THEN /\ pc' = "t_zero"
              /\ k' = k + 1
              /\ frame' = Bind(Bind(frame, "x", BatchX(loader[k + 1])),
                               "label", BatchLabel(loader[k + 1]))
              /\ UNCHANGED result
         ELSE /\ pc' = "done"
              /\ result' = [kind |-> "return", value |-> None]
              /\ frame' = NoFrame
              /\ UNCHANGED k
    /\ UNCHANGED <<globals, call, trace>>

\* for x, label in tqdm(train_loader, ...)
TrainFor ==
    /\ pc = "t_for"
    /\ IF k < Len(loader)
         THEN /\ pc' = "t_zero"
              /\ k' = k + 1
              /\ frame' = Bind(Bind(frame, "x", BatchX(loader[k + 1])),
                               "label", BatchLabel(loader[k + 1]))
              /\ UNCHANGED result
         ELSE /\ pc' = "done"
              /\ result' = [kind |-> "return", value |-> None]
              /\ frame' = NoFrame
              /\ UNCHANGED k
    /\ UNCHANGED <<globals, call, trace>>

\* Variant: the gradients are not reset.
ZeroGrad_Noop ==
    /\ pc = "t_zero"
    /\ pc' = "t_to"
    /\ grad' = grad
    /\ Log("zero_grad", TRUE)
    /\ UNCHANGED <<params, optState, grad_enabled, k, call, frame, result>>

\* optimizer.zero_grad()
ZeroGrad ==
    /\ pc = "t_zero"
    /\ pc' = "t_to"
    /\ grad' = 0
    /\ Log("zero_grad", TRUE)
    /\ UNCHANGED <<params, optState, grad_enabled, k, call, frame, result>>

\* x = x.to(device); label = label.to(device)
TrainToDevice ==
    /\ pc = "t_to"
    /\ pc' = "t_fwd"
    /\ frame' = Bind(Bind(frame, "x", frame.x), "label", frame.label)
    /\ Log("to", TRUE)
    /\ UNCHANGED <<globals, k, call, result>>

\* Variant: a forward pass that raises is caught and the batch skipped.
TrainForward_Continue ==
    /\ pc = "t_fwd"
    /\ UNCHANGED <<params, grad, optState>>
    /\ \/ /\ pc' = "t_loss"
          /\ Log("forward", TRUE)
          /\ frame' = Bind(frame, "y", [out |-> lenet(params, frame.x),
                                        graph |-> grad_enabled])
          /\ UNCHANGED <<grad_enabled, k, call, result>>
       \/ /\ pc' = "t_for"
          /\ Log("forward", FALSE)
          /\ UNCHANGED <<grad_enabled, k, call, frame, result>>

\* y = lenet(x)
TrainForward ==
    /\ pc = "t_fwd"
    /\ UNCHANGED <<params, grad, optState>>
    /\ \/ /\ pc' = "t_loss"
          /\ Log("forward", TRUE)
          /\ frame' = Bind(frame, "y", [out |-> lenet(params, frame.x),
                                        graph |-> grad_enabled])
          /\ UNCHANGED <<grad_enabled, k, call, result>>
       \/ /\ Log("forward", FALSE)
          /\ Raise("LibraryError")

\* Variant: the optimizer steps right after the loss, without a backward pass.
TrainLoss_NoBackward ==
    /\ pc = "t_loss"
    /\ UNCHANGED <<params, grad, optState>>
    /\ \/ /\ pc' = "t_step"
          /\ Log("loss", TRUE)
          /\ frame' = Bind(frame, "loss",
                           [value |-> criterion(frame.y.out, frame.label),
                            graph |-> frame.y.graph,
                            grad  |-> BatchGrad(frame.y.out, frame.label)])
          /\ UNCHANGED <<grad_enabled, k, call, result>>
       \/ /\ Log("loss", FALSE)
          /\ Raise("LibraryError")

\* loss = criterion(y, label)
TrainLoss ==
    /\ pc = "t_loss"
    /\ UNCHANGED <<params, grad, optState>>
    /\ \/ /\ pc' = "t_bwd"
          /\ Log("loss", TRUE)
          /\ frame' = Bind(frame, "loss",
                           [value |-> criterion(frame.y.out, frame.label),
                            graph |-> frame.y.graph,
                            grad  |-> BatchGrad(frame.y.out, frame.label)])
          /\ UNCHANGED <<grad_enabled, k, call, result>>
       \/ /\ Log("loss", FALSE)
          /\ Raise("LibraryError")

\* loss.backward(): adds the batch's gradient to the stored gradient.  A backward
\* that raises may or may not have written the gradient already.
Backward ==
    /\ pc = "t_bwd"
    /\ UNCHANGED <<params, optState>>
    /\ \/ /\ pc' = "t_step"
          /\ Log("backward", TRUE)
          /\ frame.loss.graph
          /\ grad' = grad + frame.loss.grad
          /\ UNCHANGED <<grad_enabled, k, call, frame, result>>
       \/ /\ \/ grad' = grad
             \/ frame.loss.graph /\ grad' = grad + frame.loss.grad
          /\ Log("backward", FALSE)
          /\ Raise("LibraryError")

\* optimizer.step().  A step that raises may or may not have written the parameter.
Step ==
    /\ pc = "t_step"
    /\ UNCHANGED grad
    /\ \/ /\ pc' = "t_for"
          /\ Log("step", TRUE)
          /\ params' = StepParams(params, grad)
          /\ optState' = StepCount(optState)
          /\ UNCHANGED <<grad_enabled, k, call, frame, result>>
       \/ /\ \/ UNCHANGED <<params, optState>>
             \/ params' = StepParams(params, grad) /\ optState' = StepCount(optState)
          /\ Log("step", FALSE)
          /\ Raise("LibraryError")

-----------------------------------------------------------------------------
(* evaluate *)

\* Variant: evaluate without the torch.no_grad() block.
CallEvaluate_GradEnabled(dataloader) ==
    /\ pc = "idle"
    /\ pc' = "e_for"
    /\ fn' = "evaluate"
    /\ loader' = dataloader
    /\ k' = 0
    /\ frame' = [live |-> TRUE, total_loss |-> <<0, 1>>, total_accuracy |-> 0,
                 num_samples |-> 0]
    /\ result' = None
    /\ trace' = <<>>
    /\ entry' = <<params, grad, optState>>
    /\ UNCHANGED <<params, grad, optState, grad_enabled>>

\* total_loss = 0; total_accuracy = 0; num_samples = 0; with torch.no_grad():
CallEvaluate(dataloader) ==
    /\ pc = "idle"
    /\ pc' = "e_for"
    /\ fn' = "evaluate"
    /\ loader' = dataloader
    /\ k' = 0
    /\ frame' = [live |-> TRUE, total_loss |-> <<0, 1>>, total_accuracy |-> 0,
                 num_samples |-> 0]
    /\ result' = None
    /\ trace' = <<>>
    /\ entry' = <<params, grad, optState>>
    /\ grad_enabled' = FALSE
    /\ UNCHANGED <<params, grad, optState>>

\* for x, label in tqdm(dataloader, ...); the end of the loop leaves the with block
EvalFor ==
    /\ pc = "e_for"
    /\ IF k < Len(loader)
         THEN /\ pc' = "e_to"
              /\ k' = k + 1
              /\ frame' = Bind(Bind(frame, "x", BatchX(loader[k + 1])),
                               "label", BatchLabel(loader[k + 1]))
              /\ UNCHANGED grad_enabled
         ELSE /\ pc' = "e_ret"
              /\ grad_enabled' = TRUE
              /\ UNCHANGED <<k, frame>>
    /\ UNCHANGED <<params, grad, optState, call, result, trace>>

\* x = x.to(device); label = label.to(device)
EvalToDevice ==
    /\ pc = "e_to"
    /\ pc' = "e_fwd"
    /\ frame' = Bind(Bind(frame, "x", frame.x), "label", frame.label)
    /\ Log("to", TRUE)
    /\ UNCHANGED <<globals, k, call, result>>

\* y = lenet(x)
EvalForward ==
    /\ pc = "e_fwd"
    /\ UNCHANGED <<params, grad, optState>>
    /\ \/ /\ pc' = "e_loss"
          /\ Log("forward", TRUE)
          /\ frame' = Bind(frame, "y", [out |-> lenet(params, frame.x),
                                        graph |-> grad_enabled])
          /\ UNCHANGED <<grad_enabled, k, call, result>>
       \/ /\ Log("forward", FALSE)
          /\ Raise("LibraryError")

\* loss = criterion(y, label)
EvalLoss ==
    /\ pc = "e_loss"
    /\ UNCHANGED <<params, grad, optState>>
    /\ \/ /\ pc' = "e_acc"
          /\ Log("loss", TRUE)
          /\ frame' = Bind(frame, "loss",
                           [value |-> criterion(frame.y.out, frame.label),
                            graph |-> frame.y.graph,
                            grad  |-> BatchGrad(frame.y.out, frame.label)])
          /\ UNCHANGED <<grad_enabled, k, call, result>>
       \/ /\ Log("loss", FALSE)
          /\ Raise("LibraryError")

\* pred = torch.argmax(y, dim=1); accuracy = torch.sum(pred == label)
EvalAccuracy ==
    /\ pc = "e_acc"
    /\ pc' = "e_upd"
    /\ LET pred == argmax(frame.y.out)
       IN  frame' = Bind(Bind(frame, "pred", pred),
                         "accuracy", CountEqual(pred, frame.label))
    /\ UNCHANGED <<globals, k, call, result, trace>>

\* Variant: the batch loss is added without its weight len(label).
EvalUpdate_Unweighted ==
    /\ pc = "e_upd"
    /\ pc' = "e_for"
    /\ frame' = [frame EXCEPT
          !.num_samples = @ + Len(frame.label),
          !.total_loss = RatAdd(@, frame.loss.value),
          !.total_accuracy = @ + frame.accuracy]
    /\ UNCHANGED <<globals, k, call, result, trace>>

\* Variant: num_samples counts batches instead of samples.
EvalUpdate_CountBatches ==
    /\ pc = "e_upd"
    /\ pc' = "e_for"
    /\ frame' = [frame EXCEPT
          !.num_samples = @ + 1,
          !.total_loss = RatAdd(@, RatMulInt(frame.loss.value, Len(frame.label))),
          !.total_accuracy = @ + frame.accuracy]
    /\ UNCHANGED <<globals, k, call, result, trace>>

\* num_samples += len(label); total_loss += loss * len(label); total_accuracy += accuracy
EvalUpdate ==
    /\ pc = "e_upd"
    /\ pc' = "e_for"
    /\ frame' = [frame EXCEPT
          !.num_samples = @ + Len(frame.label),
          !.total_loss = RatAdd(@, RatMulInt(frame.loss.value, Len(frame.label))),
          !.total_accuracy = @ + frame.accuracy]
    /\ UNCHANGED <<globals, k, call, result, trace>>

\* Variant: the accuracy is divided by the number of batches.
EvalReturn_PerBatch ==
    /\ pc = "e_ret"
    /\ pc' = "done"
    /\ IF frame.num_samples = 0
         THEN result' = [kind |-> "raise", error |-> "ZeroDivisionError"]
         ELSE result' = [kind |-> "return",
                         value |-> <<RatDivInt(frame.total_loss, frame.num_samples),
                                     Rat(frame.total_accuracy, k)>>]
    /\ frame' = NoFrame
    /\ UNCHANGED <<globals, k, call, trace>>

\* Variant: an empty dataloader is given the result (0, 0) instead of dividing.
EvalReturn_Guarded ==
    /\ pc = "e_ret"
    /\ pc' = "done"
    /\ IF frame.num_samples = 0
         THEN result' = [kind |-> "return", value |-> <<<<0, 1>>, <<0, 1>>>>]
         ELSE result' = [kind |-> "return",
                         value |-> <<RatDivInt(frame.total_loss, frame.num_samples),
                                     Rat(frame.total_accuracy, frame.num_samples)>>]
    /\ frame' = NoFrame
    /\ UNCHANGED <<globals, k, call, trace>>

\* return total_loss / num_samples, total_accuracy / num_samples
EvalReturn ==
    /\ pc = "e_ret"
    /\ pc' = "done"
    /\ IF frame.num_samples = 0
         THEN result' = [kind |-> "raise", error |-> "ZeroDivisionError"]
         ELSE result' = [kind |-> "return",
                         value |-> <<RatDivInt(frame.total_loss, frame.num_samples),
                                     Rat(frame.total_accuracy, frame.num_samples)>>]
    /\ frame' = NoFrame
    /\ UNCHANGED <<globals, k, call, trace>>

-----------------------------------------------------------------------------
(* The harness *)

\* The caller has taken the outcome of the call and goes on to its next statement.
Resume ==
    /\ pc = "done"
    /\ pc' = "idle"
    /\ fn' = "none"
    /\ loader' = <<>>
    /\ k' = 0
    /\ result' = None
    /\ trace' = <<>>
    /\ entry' = <<params, grad, optState>>
    /\ UNCHANGED <<globals, frame>>

Next ==
    \/ \E train_loader \in Loaders : CallTrain(train_loader)
    \/ TrainFor \/ ZeroGrad \/ TrainToDevice \/ TrainForward \/ TrainLoss
    \/ Backward \/ Step
    \/ \E dataloader \in Loaders : CallEvaluate(dataloader)
    \/ EvalFor \/ EvalToDevice \/ EvalForward \/ EvalLoss \/ EvalAccuracy
    \/ EvalUpdate \/ EvalReturn
    \/ Resume

Spec == Init /\ [][Next]_vars

\* Execution is synchronous and single-threaded: a call that has started keeps
\* executing its statements until it returns or raises.
Run ==
    \/ TrainFor \/ ZeroGrad \/ TrainToDevice \/ TrainForward \/ TrainLoss
    \/ Backward \/ Step
    \/ EvalFor \/ EvalToDevice \/ EvalForward \/ EvalLoss \/ EvalAccuracy
    \/ EvalUpdate \/ EvalReturn

FairSpec == Spec /\ WF_vars(Run)

-----------------------------------------------------------------------------
(* Reference values, computed from a whole dataloader sample by sample *)

TotalSize(l) == Len(Flatten(l))

BatchSizes(l) == [i \in 1..Len(l) |-> Len(l[i])]

IsCorrect(w, s) == ArgMaxRow(Logits(w, s[1])) = s[2]

NumCorrect(w, ss) == Cardinality({i \in 1..Len(ss) : IsCorrect(w, ss[i])})

SumOfLosses(w, ss) == SumSeq([i \in 1..Len(ss) |-> SampleLoss(Logits(w, ss[i][1]), ss[i][2])])

\* The mean of the per-sample losses of a non-empty sequence of samples.
PerSampleMean(w, ss) == Rat(SumOfLosses(w, ss), Len(ss))

\* Sum over the batches of (batch-mean loss x batch size).
RECURSIVE WeightedSum(_, _)
WeightedSum(w, l) ==
    IF l = <<>> THEN <<0, 1>>
    ELSE RatAdd(RatMulInt(PerSampleMean(w, Head(l)), Len(Head(l))), WeightedSum(w, Tail(l)))

\* How often each sample occurs in the dataloader, whatever the batches are.
SampleCounts(l) ==
    [s \in Samples |-> Cardinality({i \in 1..TotalSize(l) : Flatten(l)[i] = s})]

\* lenet's parameter after one gradient step on each batch of l, in order.
RECURSIVE TrainedParams(_, _)
TrainedParams(w, l) ==
    IF l = <<>> THEN w
    ELSE TrainedParams((w + Len(Head(l)) - NumCorrect(w, Head(l))) % NumParams, Tail(l))

Returned == pc = "done" /\ result.kind = "return"
Raised   == pc = "done" /\ result.kind = "raise"

EvaluateReturned == fn = "evaluate" /\ Returned

\* Batches whose contribution the accumulators of evaluate hold.
Accumulated == IF pc \in {"e_for", "e_ret"} THEN k ELSE k - 1

-----------------------------------------------------------------------------
(* Claims about evaluate *)

\* C1: whenever evaluate returns for a dataloader of N > 0 samples, the accuracy it
\* returns is correct_count / N, correct_count being the number of samples of all
\* batches whose argmax prediction equals the label.
C1_AccuracyIsCorrectOverN ==
    (EvaluateReturned /\ TotalSize(loader) > 0) =>
        result.value[2] = Rat(NumCorrect(params, Flatten(loader)), TotalSize(loader))

\* An evaluate over several batches of different sizes with some, not all, right.
C1_Witness ==
    /\ EvaluateReturned
    /\ BatchSizes(loader) = <<2, 1>>
    /\ result.value[2] = <<2, 3>>

\* C2: the loss evaluate returns is the sum over the batches of (batch-mean loss x
\* batch size) divided by the number of samples; it is the per-sample mean, and every
\* dataloader holding the same samples in other batches gives the same loss.
C2_LossIsPerSampleMean ==
    EvaluateReturned =>
        /\ result.value[1] = RatDivInt(WeightedSum(params, loader), TotalSize(loader))
        /\ result.value[1] = PerSampleMean(params, Flatten(loader))
        /\ \A other \in Loaders :
              SampleCounts(other) = SampleCounts(loader) =>
                 RatDivInt(WeightedSum(params, other), TotalSize(other)) = result.value[1]

\* A smaller last batch, and a mean that is no batch's mean.
C2_Witness ==
    /\ EvaluateReturned
    /\ BatchSizes(loader) = <<2, 1>>
    /\ result.value[1] = <<4, 3>>
    /\ PerSampleMean(params, loader[1]) = <<1, 1>>

\* C9: evaluate's accumulators are 0 when the loop starts; after each batch
\* num_samples is the number of samples of the batches processed so far and
\* 0 <= total_accuracy <= num_samples; a returned accuracy lies in [0, 1]; and
\* outside a call of evaluate the accumulators do not exist.
C9_AccumulatorBounds ==
    /\ pc \in {"e_for", "e_to", "e_fwd", "e_loss", "e_acc", "e_upd", "e_ret"} =>
          /\ frame.num_samples = TotalSize(SubSeq(loader, 1, Accumulated))
          /\ 0 <= frame.total_accuracy /\ frame.total_accuracy <= frame.num_samples
          /\ Accumulated = 0 => (frame.total_loss = <<0, 1>> /\ frame.total_accuracy = 0)
    /\ pc \in {"idle", "done"} =>
          (~Bound("total_loss") /\ ~Bound("total_accuracy") /\ ~Bound("num_samples"))
    /\ EvaluateReturned =>
          (0 <= result.value[2][1] /\ result.value[2][1] <= result.value[2][2])

\* Two batches are accumulated, in a call that follows training.
C9_Witness ==
    /\ pc = "e_for" /\ k = 2
    /\ frame.num_samples = 3
    /\ frame.total_accuracy = 1
    /\ params # InitParams

\* C10: evaluate of a dataloader that yields no batch ends in a ZeroDivisionError,
\* returns no (loss, accuracy) pair and leaves parameter, gradient and optimizer
\* state as they were; a dataloader with samples never ends that way.
C10_EmptyLoaderDividesByZero ==
    (pc = "done" /\ fn = "evaluate") =>
        /\ loader = <<>> =>
              /\ result = [kind |-> "raise", error |-> "ZeroDivisionError"]
              /\ <<params, grad, optState>> = entry
        /\ (result.kind = "raise" /\ result.error = "ZeroDivisionError") => loader = <<>>

C10_Witness ==
    /\ Raised /\ fn = "evaluate" /\ loader = <<>>
    /\ result.error = "ZeroDivisionError"
    /\ params # InitParams

-----------------------------------------------------------------------------
(* Claims about train_one_epoch *)

PrimOrder == <<"zero_grad", "forward", "loss", "backward", "step">>

IsTrainingPrimitive(e) == \E i \in 1..Len(PrimOrder) : PrimOrder[i] = e.op

\* The training primitives invoked so far, as <<primitive, batch>>.
Calls ==
    LET sel == SelectSeq(trace, IsTrainingPrimitive)
    IN  [i \in 1..Len(sel) |-> <<sel[i].op, sel[i].batch>>]

\* The training primitives of batches 1..b, in the order of the loop body.
ExpectedCalls(b) ==
    [i \in 1..(Len(PrimOrder) * b) |->
        <<PrimOrder[((i - 1) % Len(PrimOrder)) + 1], ((i - 1) \div Len(PrimOrder)) + 1>>]

IsPrefix(s, t) == Len(s) <= Len(t) /\ s = SubSeq(t, 1, Len(s))

TrainReturned == fn = "train_one_epoch" /\ Returned

InTrainBody == pc \in {"t_zero", "t_to", "t_fwd", "t_loss", "t_bwd", "t_step"}

OkSteps == Cardinality({i \in 1..Len(trace) : trace[i].op = "step" /\ trace[i].ok})

\* C3: in train_one_epoch the primitives are invoked in the order zero_grad, forward,
\* loss, backward, step, once each per batch, batch after batch; when the loop takes
\* the next batch, every primitive of the batches before has completed.
C3_PrimitiveOrder ==
    fn = "train_one_epoch" =>
        /\ IsPrefix(Calls, ExpectedCalls(Len(loader)))
        /\ pc = "t_for" => Calls = ExpectedCalls(k)
        /\ pc = "t_zero" => Calls = ExpectedCalls(k - 1)
        /\ pc # "done" => \A i \in 1..Len(trace) : trace[i].ok
        /\ Returned => Calls = ExpectedCalls(Len(loader))

C3_Witness ==
    /\ TrainReturned
    /\ Len(loader) = 3
    /\ Len(Calls) = 15

\* C4 (state part): inside the loop body the current batch is batch k of the loader;
\* when train_one_epoch returns it has taken all B batches and made exactly B optimizer
\* steps, one per batch in loader order; with B = 0 it has invoked nothing and
\* parameter, gradient and optimizer state are as before the call.
C4_FullPassState ==
    fn = "train_one_epoch" =>
        /\ k <= Len(loader)
        /\ InTrainBody => (frame.x = BatchX(loader[k]) /\ frame.label = BatchLabel(loader[k]))
        /\ Returned =>
              /\ k = Len(loader)
              /\ OkSteps = Len(loader)
              /\ params = TrainedParams(entry[1], loader)
              /\ loader = <<>> => (trace = <<>> /\ <<params, grad, optState>> = entry)

\* C4: one call of train_one_epoch is one full pass over the loader, and it ends.
C4_FullPass ==
    /\ []C4_FullPassState
    /\ (pc = "t_for" /\ k = 0) ~> (pc = "done")

C4_Witness ==
    /\ TrainReturned
    /\ BatchSizes(loader) = <<1, 2>>
    /\ OkSteps = 2
    /\ params # entry[1]

\* C8: when optimizer.step() runs, the stored gradient is the gradient of the current
\* batch alone, whatever was stored before the call or left by earlier batches.
C8_GradientOfCurrentBatch ==
    pc = "t_step" => grad = Len(loader[k]) - NumCorrect(params, loader[k])

\* The second batch is about to be stepped; the first batch had a gradient too, and
\* a gradient was stored before the call.
C8_Witness ==
    /\ pc = "t_step" /\ k = 2
    /\ NumCorrect(entry[1], loader[1]) = 0
    /\ grad = 1
    /\ entry[2] = 2

-----------------------------------------------------------------------------
(* Claims about both functions *)

\* C5: evaluate runs the model with gradients disabled, invokes neither zero_grad nor
\* backward nor step, and parameter, stored gradient and optimizer state are at every
\* moment of the call, and after it, what they were when it started.
C5_EvaluateChangesNothing ==
    fn = "evaluate" =>
        /\ <<params, grad, optState>> = entry
        /\ \A i \in 1..Len(trace) : trace[i].op \notin {"zero_grad", "backward", "step"}
        /\ pc \in {"e_for", "e_to", "e_fwd", "e_loss", "e_acc", "e_upd"} => ~grad_enabled
        /\ Bound("y") => ~frame.y.graph
        /\ Bound("loss") => ~frame.loss.graph

\* An evaluate of two batches that found a gradient stored by an earlier training.
C5_Witness ==
    /\ EvaluateReturned
    /\ Len(loader) = 2
    /\ entry[2] # 0
    /\ params # InitParams

\* C6: a primitive that raises is the last thing the call does: the call ends with the
\* library's error and no return value, the primitive was invoked once, nothing of a
\* later batch was invoked; in train_one_epoch the parameter is the one the steps of
\* batches 1..k-1 produce unless the raising primitive is the step of batch k itself.
C6_FailurePropagates ==
    \A i \in 1..Len(trace) :
        ~trace[i].ok =>
            /\ i = Len(trace)
            /\ pc = "done"
            /\ result = [kind |-> "raise", error |-> "LibraryError"]
            /\ trace[i].batch = k
            /\ \A j \in 1..Len(trace) :
                  /\ trace[j].batch <= k
                  /\ (trace[j].op = trace[i].op /\ trace[j].batch = k) => j = i
            /\ fn = "train_one_epoch" =>
                  /\ IsPrefix(Calls, ExpectedCalls(k))
                  /\ trace[i].op # "step" =>
                        params = TrainedParams(entry[1], SubSeq(loader, 1, k - 1))
                  /\ params \in {TrainedParams(entry[1], SubSeq(loader, 1, k - 1)),
                                 TrainedParams(entry[1], SubSeq(loader, 1, k))}

\* backward raises in the second batch; the step of the first batch stays applied.
C6_Witness ==
    /\ Raised /\ fn = "train_one_epoch"
    /\ k = 2
    /\ trace[Len(trace)].op = "backward" /\ ~trace[Len(trace)].ok
    /\ params # entry[1]

\* What evaluate returns for a dataloader when lenet's parameter is w.
EvaluateValue(w, l) ==
    <<PerSampleMean(w, Flatten(l)), Rat(NumCorrect(w, Flatten(l)), TotalSize(l))>>

\* C7 as claimed: train_one_epoch leaves nothing behind that evaluate reads, so the
\* parameter evaluate reads is the one the harness started with, and what evaluate
\* returns depends on the dataloader alone: it is what it would be had no
\* train_one_epoch run before.
C7_NoSharedState ==
    EvaluateReturned =>
        /\ entry[1] = InitParams
        /\ result.value = EvaluateValue(InitParams, loader)

\* C7 amended: what evaluate returns is determined by the dataloader together with
\* lenet's parameter as it is when evaluate is called; train_one_epoch leaves behind
\* the parameter, the stored gradient and the optimizer state and nothing else: its
\* locals are gone and the gradient mode is on.
C7_SharedThroughLenet ==
    /\ EvaluateReturned => result.value = EvaluateValue(entry[1], loader)
    /\ (pc \in {"idle", "done"}) =>
          /\ grad_enabled
          /\ frame = NoFrame

\* An evaluate after training returns something else than it would have before.
C7_Witness ==
    /\ EvaluateReturned
    /\ params # InitParams
    /\ result.value # EvaluateValue(InitParams, loader)

====
